---- MODULE Spec2Model ----
(***************************************************************************)
(* Model of src/App.tsx: the scan screen of the finance manager app.       *)
(*                                                                         *)
(* The component state (the six useState cells), the permission effect,    *)
(* the two button handlers, the barcode handler and the asynchronous       *)
(* fetchNFCe, whose body is split at its three await points.  State        *)
(* updates made in one synchronous stretch of JavaScript are committed     *)
(* together, and the screen is rendered again after every commit, so each  *)
(* action ends by recomputing view.                                        *)
(***************************************************************************)
EXTENDS Integers, Sequences, FiniteSets, TLC

\* Largest number of fetchNFCe invocations explored in one screen lifetime.
MaxFetches == 2

\* A nullable value: None is JavaScript's null, Some(v) any other value.
None == [some |-> FALSE]
Some(v) == [some |-> TRUE, val |-> v]

\* The two messages of setError (written here without diacritics).
ProcessingMsg == "Nao foi possivel processar a nota. Tente novamente."
ConnectionMsg == "Erro de conexao com o servidor."

\* QR payloads delivered by decode events: sequences of characters, with
\* the characters JSON.stringify must escape among them.
Texts ==
  { << "h", "\"", "\\" >>, << "\n", "?" >> }

\* Answers of Camera.requestCameraPermissionsAsync.
PermissionStatuses == {"granted", "denied", "undetermined"}

\* Parsed response bodies (amounts in cents).  InvPartial parses as JSON
\* but lacks total and itens.
InvA ==
  [loja |-> "Mercado X", cnpj |-> "00.000.000/0001-00",
   data_emissao |-> "2024-01-01", total |-> 1990,
   itens |-> << [descricao |-> "Arroz", quantidade |-> 1,
                 valor_unitario |-> 1990, valor_total |-> 1990] >>]
InvPartial ==
  [loja |-> "Loja Y", cnpj |-> "11.111.111/0001-11"]

\* Response bodies as received: JSON text of a value, or text that is not
\* JSON.
ResponseBodies ==
  { [kind |-> "json", value |-> InvA],
    [kind |-> "json", value |-> InvPartial],
    [kind |-> "invalid"] }

VARIABLES
  hasPermission,   \* useState<null | boolean>(null)
  isScanning,      \* useState(false)
  rawUrl,          \* useState<string | null>(null)
  invoice,         \* useState<Invoice | null>(null)
  loading,         \* useState(false)
  error,           \* useState<string | null>(null)
  effectPc,        \* position of the permission effect
  permRequests,    \* number of calls of requestCameraPermissionsAsync
  fetches,         \* the invocations of fetchNFCe, in order of invocation
  sessionFetches,  \* fetchNFCe invocations since the last "Escanear Nota"
  decodes,         \* decode events handled by handleBarcodeScanned
  view             \* what the last render returned

vars ==
  << hasPermission, isScanning, rawUrl, invoice, loading, error,
     effectPc, permRequests, fetches, sessionFetches, decodes, view >>

----------------------------------------------------------------------------
\* JSON.stringify of a string: quotes it and escapes '"', '\' and newline.
RECURSIVE EscapeChars(_)
EscapeChars_NoEscape(s) == s
EscapeChars(s) ==
  IF s = << >> THEN << >>
  ELSE LET c == Head(s)
           e == IF c = "\"" THEN << "\\", "\"" >>
                ELSE IF c = "\\" THEN << "\\", "\\" >>
                ELSE IF c = "\n" THEN << "\\", "n" >>
                ELSE << c >>
       IN e \o EscapeChars(Tail(s))

\* JSON.stringify({ url }).
JSONstringify(url) ==
  << "{", "\"", "u", "r", "l", "\"", ":", "\"" >> \o EscapeChars(url)
    \o << "\"", "}" >>

\* res.json(): the parsed value, or None when the body is not JSON (the
\* promise rejects).
ResJson(body) ==
  IF body.kind = "json" THEN Some(body.value) ELSE None

----------------------------------------------------------------------------
\* The four conditional panels of the main screen.
ShowLoading(ld, err, inv, sc) == ld
ShowError_IgnoresLoading(ld, err, inv, sc) == err.some /\ err.val # ""
ShowError(ld, err, inv, sc) == (err.some /\ err.val # "") /\ ~ld
ShowInvoice(ld, err, inv, sc) ==
  ~ld /\ ~(err.some /\ err.val # "") /\ inv.some
ShowEmpty_IgnoresScanning(ld, err, inv, sc) ==
  ~ld /\ ~(err.some /\ err.val # "") /\ ~inv.some
ShowEmpty(ld, err, inv, sc) ==
  ~ld /\ ~(err.some /\ err.val # "") /\ ~inv.some /\ ~sc

Panels(ld, err, inv, sc) ==
  (IF ShowLoading(ld, err, inv, sc) THEN {"loading"} ELSE {})
    \cup (IF ShowError(ld, err, inv, sc) THEN {"error"} ELSE {})
    \cup (IF ShowInvoice(ld, err, inv, sc) THEN {"invoice"} ELSE {})
    \cup (IF ShowEmpty(ld, err, inv, sc) THEN {"empty"} ELSE {})

\* Evaluating the content of the invoice card: invoice.total.toFixed(2),
\* invoice.itens.map(...) and each item's valor_unitario.toFixed(2) and
\* valor_total.toFixed(2) throw a TypeError when the member is absent;
\* the other members are only interpolated.
CardThrows(inv) ==
  \/ "total" \notin DOMAIN inv
  \/ "itens" \notin DOMAIN inv
  \/ IF "itens" \in DOMAIN inv
       THEN \E k \in 1..Len(inv.itens) :
              \/ "valor_unitario" \notin DOMAIN inv.itens[k]
              \/ "valor_total" \notin DOMAIN inv.itens[k]
       ELSE FALSE

\* What becomes of the invoice card: not part of the tree, rendered, or an
\* exception thrown out of App while rendering it.
InvoiceCard(ld, err, inv, sc) ==
  IF ~ShowInvoice(ld, err, inv, sc) THEN "none"
  ELSE IF CardThrows(inv.val) THEN "threw"
  ELSE "rendered"

\* The return value of App for the given state.
Render_NoPermissionGate(hp, sc, ld, err, inv) ==
  [screen |-> "main",
   button |-> IF sc THEN "Cancelar leitura" ELSE "Escanear Nota",
   viewfinder |-> sc,
   panels |-> Panels(ld, err, inv, sc),
   card |-> InvoiceCard(ld, err, inv, sc)]
Render(hp, sc, ld, err, inv) ==
  IF hp = None
    THEN [screen |-> "permission-pending", button |-> "none",
          viewfinder |-> FALSE, panels |-> {}, card |-> "none"]
  ELSE IF hp = Some(FALSE)
    THEN [screen |-> "permission-denied", button |-> "none",
          viewfinder |-> FALSE, panels |-> {}, card |-> "none"]
  ELSE [screen |-> "main",
        button |-> IF sc THEN "Cancelar leitura" ELSE "Escanear Nota",
        viewfinder |-> sc,
        panels |-> Panels(ld, err, inv, sc),
        card |-> InvoiceCard(ld, err, inv, sc)]

\* No render has thrown: the screen is still there.  An exception thrown
\* while rendering is caught by nothing and ends the screen.
Alive == view.card # "threw"

Rerender == view' = Render(hasPermission', isScanning', loading', error', invoice')

----------------------------------------------------------------------------
Init ==
  /\ hasPermission = None
  /\ isScanning = FALSE
  /\ rawUrl = None
  /\ invoice = None
  /\ loading = FALSE
  /\ error = None
  /\ effectPc = "mounted"
  /\ permRequests = 0
  /\ fetches = << >>
  /\ sessionFetches = 0
  /\ decodes = 0
  /\ view = Render(None, FALSE, FALSE, None, None)

\* useEffect(..., []): after the first render, ask for the permission.
RequestPermission_EveryRender ==
  /\ effectPc \in {"mounted", "done"}
  /\ permRequests < 3
  /\ effectPc' = "await_permission"
  /\ permRequests' = permRequests + 1
  /\ UNCHANGED << hasPermission, isScanning, rawUrl, invoice, loading, error,
                  fetches, sessionFetches, decodes >>
  /\ Rerender
RequestPermission ==
  /\ effectPc = "mounted"
  /\ effectPc' = "await_permission"
  /\ permRequests' = permRequests + 1
  /\ UNCHANGED << hasPermission, isScanning, rawUrl, invoice, loading, error,
                  fetches, sessionFetches, decodes >>
  /\ Rerender

\* The permission promise resolves: setHasPermission(status === "granted").
PermissionResolved(status) ==
  /\ effectPc = "await_permission"
  /\ effectPc' = "done"
  /\ hasPermission' = Some(status = "granted")
  /\ UNCHANGED << isScanning, rawUrl, invoice, loading, error,
                  permRequests, fetches, sessionFetches, decodes >>
  /\ Rerender

\* The permission promise rejects: nothing catches it, no state is set.
PermissionRejected ==
  /\ effectPc = "await_permission"
  /\ effectPc' = "done"
  /\ UNCHANGED << hasPermission, isScanning, rawUrl, invoice, loading, error,
                  permRequests, fetches, sessionFetches, decodes >>
  /\ Rerender

\* onPress of the button "Escanear Nota".
PressScan ==
  /\ Alive
  /\ view.screen = "main"
  /\ view.button = "Escanear Nota"
  /\ isScanning' = TRUE
  /\ sessionFetches' = 0
  /\ UNCHANGED << hasPermission, rawUrl, invoice, loading, error,
                  effectPc, permRequests, fetches, decodes >>
  /\ Rerender

\* onPress of the button "Cancelar leitura".
PressCancel_ClearsResult ==
  /\ Alive
  /\ view.screen = "main"
  /\ view.button = "Cancelar leitura"
  /\ isScanning' = FALSE
  /\ invoice' = None
  /\ error' = None
  /\ UNCHANGED << hasPermission, rawUrl, loading,
                  effectPc, permRequests, fetches, sessionFetches, decodes >>
  /\ Rerender
PressCancel ==
  /\ Alive
  /\ view.screen = "main"
  /\ view.button = "Cancelar leitura"
  /\ isScanning' = FALSE
  /\ UNCHANGED << hasPermission, rawUrl, invoice, loading, error,
                  effectPc, permRequests, fetches, sessionFetches, decodes >>
  /\ Rerender

\* fetchNFCe(url) up to its first await: the three setters and the POST
\* (posts counts the requests this invocation has issued).
FetchStart(url, data) ==
  [scanned |-> data, url |-> url, body |-> JSONstringify(url),
   pc |-> "await_fetch", posts |-> 1, res |-> None, outcome |-> "pending"]

\* handleBarcodeScanned(result), with the synchronous start of fetchNFCe.
HandleBarcodeScannedEffect_KeepsScanning(data) ==
  /\ isScanning' = isScanning
  /\ rawUrl' = Some(data)
  /\ loading' = TRUE
  /\ error' = None
  /\ invoice' = None
  /\ fetches' = Append(fetches, FetchStart(data, data))
HandleBarcodeScannedEffect_KeepsInvoice(data) ==
  /\ isScanning' = FALSE
  /\ rawUrl' = Some(data)
  /\ loading' = TRUE
  /\ error' = None
  /\ invoice' = invoice
  /\ fetches' = Append(fetches, FetchStart(data, data))
HandleBarcodeScannedEffect(data) ==
  /\ isScanning' = FALSE
  /\ rawUrl' = Some(data)
  /\ loading' = TRUE
  /\ error' = None
  /\ invoice' = None
  /\ fetches' = Append(fetches, FetchStart(data, data))

\* A decode event of the mounted CameraView.
BarcodeScanned(data) ==
  /\ Alive
  /\ view.screen = "main"
  /\ view.viewfinder
  /\ Len(fetches) < MaxFetches
  /\ HandleBarcodeScannedEffect(data)
  /\ sessionFetches' = sessionFetches + 1
  /\ decodes' = decodes + 1
  /\ UNCHANGED << hasPermission, effectPc, permRequests >>
  /\ Rerender

\* catch (err) { setError("Erro de conexao com o servidor."); } and the
\* finally block, for invocation i.
\* How invocation i ended is kept in outcome; the response is dropped.
Thrown(i) ==
  IF fetches[i].pc = "await_fetch" THEN "fetch_rejected"
  ELSE IF fetches[i].pc = "await_text" THEN "text_rejected"
  ELSE "json_rejected"

Returned(i, outcome) ==
  [fetches EXCEPT ![i].pc = "done", ![i].res = None, ![i].outcome = outcome]

CatchAndFinally_Retries(i) ==
  IF fetches[i].posts < 2
    THEN /\ fetches' = [fetches EXCEPT ![i].pc = "await_fetch",
                                       ![i].res = None,
                                       ![i].posts = @ + 1]
         /\ UNCHANGED << error, loading, invoice >>
    ELSE /\ error' = Some(ConnectionMsg)
         /\ loading' = FALSE
         /\ fetches' = Returned(i, Thrown(i))
         /\ UNCHANGED invoice
CatchAndFinally_NoFinally(i) ==
  /\ error' = Some(ConnectionMsg)
  /\ loading' = loading
  /\ fetches' = Returned(i, Thrown(i))
  /\ UNCHANGED invoice
CatchAndFinally(i) ==
  /\ error' = Some(ConnectionMsg)
  /\ loading' = FALSE
  /\ fetches' = Returned(i, Thrown(i))
  /\ UNCHANGED invoice

\* await fetch(...) resolves for invocation i with a response.
FetchResolved(i, ok, body) ==
  /\ Alive
  /\ fetches[i].pc = "await_fetch"
  /\ fetches' = [fetches EXCEPT ![i].res = Some([ok |-> ok, body |-> body]),
                                ![i].pc = IF ok THEN "await_json"
                                                ELSE "await_text"]
  /\ UNCHANGED << hasPermission, isScanning, rawUrl, invoice, loading, error,
                  effectPc, permRequests, sessionFetches, decodes >>
  /\ Rerender

\* await fetch(...) rejects for invocation i: the request never completes.
FetchRejected(i) ==
  /\ Alive
  /\ fetches[i].pc = "await_fetch"
  /\ CatchAndFinally(i)
  /\ UNCHANGED << hasPermission, isScanning, rawUrl,
                  effectPc, permRequests, sessionFetches, decodes >>
  /\ Rerender

\* if (!res.ok): await res.text() resolves; setError(...); return; finally.
TextResolved(i) ==
  /\ Alive
  /\ fetches[i].pc = "await_text"
  /\ error' = Some(ProcessingMsg)
  /\ loading' = FALSE
  /\ fetches' = Returned(i, "http_error")
  /\ UNCHANGED << hasPermission, isScanning, rawUrl, invoice,
                  effectPc, permRequests, sessionFetches, decodes >>
  /\ Rerender

\* if (!res.ok): await res.text() rejects.
TextRejected(i) ==
  /\ Alive
  /\ fetches[i].pc = "await_text"
  /\ CatchAndFinally(i)
  /\ UNCHANGED << hasPermission, isScanning, rawUrl,
                  effectPc, permRequests, sessionFetches, decodes >>
  /\ Rerender

\* await res.json() resolves; setInvoice(data); finally.
JsonResolved_OnlyLatest(i) ==
  /\ Alive
  /\ fetches[i].pc = "await_json"
  /\ ResJson(fetches[i].res.val.body).some
  /\ IF i = Len(fetches)
       THEN /\ invoice' = Some(ResJson(fetches[i].res.val.body).val)
            /\ loading' = FALSE
       ELSE UNCHANGED << invoice, loading >>
  /\ fetches' = Returned(i, "invoice")
  /\ UNCHANGED << hasPermission, isScanning, rawUrl, error,
                  effectPc, permRequests, sessionFetches, decodes >>
  /\ Rerender
JsonResolved(i) ==
  /\ Alive
  /\ fetches[i].pc = "await_json"
  /\ ResJson(fetches[i].res.val.body).some
  /\ invoice' = Some(ResJson(fetches[i].res.val.body).val)
  /\ loading' = FALSE
  /\ fetches' = Returned(i, "invoice")
  /\ UNCHANGED << hasPermission, isScanning, rawUrl, error,
                  effectPc, permRequests, sessionFetches, decodes >>
  /\ Rerender

\* await res.json() rejects: the body is not JSON, or reading it failed.
JsonRejected(i) ==
  /\ Alive
  /\ fetches[i].pc = "await_json"
  /\ CatchAndFinally(i)
  /\ UNCHANGED << hasPermission, isScanning, rawUrl,
                  effectPc, permRequests, sessionFetches, decodes >>
  /\ Rerender

\* The steps the network can make invocation i take.
NetworkStep(i) ==
  \/ \E ok \in BOOLEAN, body \in ResponseBodies : FetchResolved(i, ok, body)
  \/ FetchRejected(i)
  \/ TextResolved(i)
  \/ TextRejected(i)
  \/ JsonResolved(i)
  \/ JsonRejected(i)

Next ==
  \/ RequestPermission
  \/ \E status \in PermissionStatuses : PermissionResolved(status)
  \/ PermissionRejected
  \/ PressScan
  \/ PressCancel
  \/ \E data \in Texts : BarcodeScanned(data)
  \/ \E i \in 1..Len(fetches), ok \in BOOLEAN, body \in ResponseBodies :
       FetchResolved(i, ok, body)
  \/ \E i \in 1..Len(fetches) : FetchRejected(i)
  \/ \E i \in 1..Len(fetches) : TextResolved(i)
  \/ \E i \in 1..Len(fetches) : TextRejected(i)
  \/ \E i \in 1..Len(fetches) : JsonResolved(i)
  \/ \E i \in 1..Len(fetches) : JsonRejected(i)

Spec == Init /\ [][Next]_vars

\* Every issued request eventually completes or fails, and so does every
\* read of a response body.
LiveSpec ==
  Spec /\ \A i \in 1..(MaxFetches + 1) : WF_vars(i <= Len(fetches) /\ NetworkStep(i))

----------------------------------------------------------------------------
\* Rendering as a function of arbitrary state: every combination of the
\* six state cells, rendered once.
Unrendered ==
  [screen |-> "unrendered", button |-> "none", viewfinder |-> FALSE,
   panels |-> {}, card |-> "none"]

InitView ==
  /\ hasPermission \in {None, Some(TRUE), Some(FALSE)}
  /\ isScanning \in BOOLEAN
  /\ rawUrl \in {None} \cup {Some(t) : t \in Texts}
  /\ invoice \in {None, Some(InvA), Some(InvPartial)}
  /\ loading \in BOOLEAN
  /\ error \in {None, Some(ProcessingMsg), Some(ConnectionMsg)}
  /\ effectPc = "done"
  /\ permRequests = 1
  /\ fetches = << >>
  /\ sessionFetches = 0
  /\ decodes = 0
  /\ view = Unrendered

RenderApp ==
  /\ view = Unrendered
  /\ view' = Render(hasPermission, isScanning, loading, error, invoice)
  /\ UNCHANGED << hasPermission, isScanning, rawUrl, invoice, loading, error,
                  effectPc, permRequests, fetches, sessionFetches, decodes >>

NextView == RenderApp

SpecView == InitView /\ [][NextView]_vars

----------------------------------------------------------------------------
\* Steps of fetchNFCe as seen in a pair of states.

\* Invocation i completes in this step.
Completes(i) ==
  /\ i <= Len(fetches)
  /\ fetches[i].pc # "done"
  /\ fetches'[i].pc = "done"

\* A new invocation of fetchNFCe starts in this step.
Starts == Len(fetches') = Len(fetches) + 1

\* No invocation other than i is outstanding.
NoOtherOutstanding(i) ==
  \A j \in 1..Len(fetches) : j # i => fetches[j].pc = "done"

\* The url member of a JSON text of the form {"url":"..."}, read as a JSON
\* parser reads it; None when the text is not of that form.
RECURSIVE JsonStringTail(_, _)
JsonStringTail(s, acc) ==
  IF s = << >> THEN None
  ELSE IF Head(s) = "\"" THEN Some([str |-> acc, rest |-> Tail(s)])
  ELSE IF Head(s) = "\n" THEN None
  ELSE IF Head(s) = "\\"
    THEN IF Len(s) < 2 THEN None
         ELSE IF s[2] \in {"\"", "\\"}
           THEN JsonStringTail(SubSeq(s, 3, Len(s)), Append(acc, s[2]))
         ELSE IF s[2] = "n"
           THEN JsonStringTail(SubSeq(s, 3, Len(s)), Append(acc, "\n"))
         ELSE None
  ELSE JsonStringTail(Tail(s), Append(acc, Head(s)))

JsonUrlField(text) ==
  LET prefix == << "{", "\"", "u", "r", "l", "\"", ":", "\"" >>
  IN IF Len(text) >= 8 /\ SubSeq(text, 1, 8) = prefix
       THEN LET r == JsonStringTail(SubSeq(text, 9, Len(text)), << >>)
            IN IF r.some /\ r.val.rest = << "}" >>
                 THEN Some(r.val.str) ELSE None
       ELSE None

----------------------------------------------------------------------------
\* C1: invoice and error are never both populated, in any state reachable
\* by start-scan, cancel, decode and fetch-completion events, also when a
\* second fetch starts before the first has completed.
C1_NeverBothPopulated == ~(invoice.some /\ error.some)

\* C2: a scan session produces at most one invocation of fetchNFCe: the
\* first decode event of the session ends scanning, and while scanning goes
\* on no decode event of the session has been processed.
C2_OneFetchPerSession ==
  /\ sessionFetches <= 1
  /\ isScanning => sessionFetches = 0

C2_Witness ==
  /\ Len(fetches) = 2
  /\ sessionFetches = 1
  /\ ~isScanning

\* C3: in the state right after a decode event is handled, loading is true
\* and invoice and error are both null, whatever was held before.
C3_StartClears ==
  [][Starts => (loading' /\ error' = None /\ invoice' = None)]_vars

\* The second decode has just been handled, and the first fetch had left
\* an invoice.
C3_Witness ==
  /\ Len(fetches) = 2
  /\ fetches[1].outcome = "invoice"
  /\ fetches[2].pc = "await_fetch"
  /\ loading /\ invoice = None /\ error = None

\* C4: the completion of a fetch leaves loading false on every exit path,
\* and, when every request and body read completes or fails, loading true
\* is eventually followed by loading false.
C4_AlwaysEndsNotLoading ==
  /\ [][(\E i \in 1..Len(fetches) : Completes(i)) => ~loading']_vars
  /\ (loading ~> ~loading)

\* A fetch whose response arrived with a success status and whose body
\* failed to parse has completed.
C4_Witness ==
  /\ Len(fetches) >= 1
  /\ fetches[1].pc = "done"
  /\ fetches[1].outcome = "json_rejected"
  /\ ~loading

\* C5: handling a decode event carrying t sets rawUrl to t, ends scanning
\* and issues exactly one request, whose body has t as its url member.
C5_DecodeForwardsVerbatim ==
  [][Len(fetches') # Len(fetches) =>
       /\ Starts
       /\ isScanning /\ ~isScanning'
       /\ LET f == fetches'[Len(fetches')]
          IN /\ rawUrl' = Some(f.scanned)
             /\ f.pc = "await_fetch"
             /\ JsonUrlField(f.body) = Some(f.scanned)]_vars

\* A decoded text with a quote and a backslash in it has been forwarded.
C5_Witness ==
  /\ Len(fetches) >= 1
  /\ fetches[1].scanned = << "h", "\"", "\\" >>
  /\ rawUrl = Some(<< "h", "\"", "\\" >>)

\* C6: scanning is active only with the permission granted, and until the
\* permission is granted no decode is processed and no fetch is issued:
\* rawUrl, invoice, error and loading keep their initial values.
C6_ScanNeedsPermission ==
  /\ isScanning => hasPermission = Some(TRUE)
  /\ hasPermission # Some(TRUE) =>
       /\ rawUrl = None /\ invoice = None /\ error = None /\ ~loading
       /\ fetches = << >>
       /\ ~view.viewfinder

C6_Witness ==
  /\ isScanning
  /\ hasPermission = Some(TRUE)
  /\ view.viewfinder

\* C7: the view follows the priority order: permission unknown, then
\* denied, then loading, then error, then invoice, then, when not scanning,
\* the placeholder; at most one of the four panels is shown.
C7_ViewFollowsPriority ==
  view # Unrendered =>
    /\ view.screen =
         (IF hasPermission = None THEN "permission-pending"
          ELSE IF hasPermission = Some(FALSE) THEN "permission-denied"
          ELSE "main")
    /\ view.panels =
         (IF view.screen # "main" THEN {}
          ELSE IF loading THEN {"loading"}
          ELSE IF error.some THEN {"error"}
          ELSE IF invoice.some THEN {"invoice"}
          ELSE IF ~isScanning THEN {"empty"}
          ELSE {})
    /\ Cardinality(view.panels) <= 1

\* Granted, loading, with an error and an invoice both held: only the
\* loading indicator is shown.
C7_Witness ==
  /\ view # Unrendered
  /\ hasPermission = Some(TRUE)
  /\ loading /\ error.some /\ invoice.some
  /\ view.panels = {"loading"}

\* C8 as stated: with the permission granted exactly one of the four
\* panels is rendered, never none.
C8_ExactlyOnePanel ==
  hasPermission = Some(TRUE) => Cardinality(view.panels) = 1

\* C8 as amended: with the permission granted at most one of the four
\* panels is chosen, and none is chosen exactly when scanning is active with
\* no fetch in flight, no error and no invoice.
C8_AtMostOnePanel ==
  hasPermission = Some(TRUE) =>
    /\ Cardinality(view.panels) <= 1
    /\ view.panels = {} <=>
         (isScanning /\ ~loading /\ ~error.some /\ ~invoice.some)

C8_Witness ==
  /\ hasPermission = Some(TRUE)
  /\ isScanning
  /\ view.screen = "main"
  /\ view.panels = {}

\* C9: a fetch that completes with a success status sets invoice to the
\* parsed response body and leaves error null; invoice is populated only by
\* such a completion.
C9_SuccessSetsInvoiceOnly ==
  [][/\ \A i \in 1..Len(fetches) :
          (Completes(i) /\ fetches'[i].outcome = "invoice") =>
             /\ fetches[i].res.some /\ fetches[i].res.val.ok
             /\ invoice' = ResJson(fetches[i].res.val.body)
             /\ error' = None
     /\ (invoice'.some /\ invoice' # invoice) =>
          \E i \in 1..Len(fetches) :
             Completes(i) /\ fetches'[i].outcome = "invoice"]_vars

\* C10: a fetch that completes with a non-success status sets error to the
\* processing message, a fetch whose request never completes sets error to
\* the connection message, and neither populates invoice: with no other
\* fetch outstanding invoice is null afterwards.
C10_FailureSetsErrorOnly ==
  [][\A i \in 1..Len(fetches) :
       /\ (Completes(i) /\ fetches'[i].outcome = "http_error") =>
            error' = Some(ProcessingMsg)
       /\ (Completes(i) /\ fetches'[i].outcome = "fetch_rejected") =>
            error' = Some(ConnectionMsg)
       /\ (Completes(i) /\ fetches'[i].outcome \in {"http_error",
                                                    "fetch_rejected"}) =>
            /\ invoice' = invoice
            /\ NoOtherOutstanding(i) => invoice' = None]_vars

\* C11: while the request for the most recently decoded URL has not
\* completed, the invoice card is not rendered, also when an earlier fetch
\* was still in flight when the new one started.
C11_NoCardWhileLatestOutstanding ==
  (Len(fetches) >= 1 /\ fetches[Len(fetches)].pc # "done") =>
     "invoice" \notin view.panels

\* C12: nothing cancels or supersedes a fetch: when an invocation completes
\* after a later one has started, it still writes its outcome to invoice,
\* error and loading; so invoice can hold the response for a URL other than
\* rawUrl.
C12_StaleCompletionWrites ==
  [][\A i \in 1..Len(fetches) :
       (Completes(i) /\ i < Len(fetches)) =>
          /\ loading' = FALSE
          /\ (fetches'[i].outcome = "invoice") =>
               invoice' = ResJson(fetches[i].res.val.body)
          /\ (fetches'[i].outcome = "http_error") =>
               error' = Some(ProcessingMsg)
          /\ (fetches'[i].outcome \in {"fetch_rejected", "text_rejected",
                                       "json_rejected"}) =>
               error' = Some(ConnectionMsg)]_vars

\* invoice holds the response of the first fetch while rawUrl is the text
\* of the second decode, a different one.
C12_Witness ==
  /\ Len(fetches) = 2
  /\ fetches[1].outcome = "invoice"
  /\ fetches[2].outcome # "invoice"
  /\ invoice.some
  /\ fetches[1].url # fetches[2].url
  /\ rawUrl = Some(fetches[2].scanned)

\* C13: the camera permission is requested once per screen lifetime, and
\* hasPermission changes at most once, from null to true or false; false is
\* final and never followed by a scan.
C13_PermissionSetOnce ==
  /\ [](permRequests <= 1 /\ (effectPc # "mounted" => permRequests = 1))
  /\ [][/\ (hasPermission' # hasPermission) =>
             (hasPermission = None /\ hasPermission'.some)
        /\ (hasPermission = Some(FALSE)) =>
             (hasPermission' = Some(FALSE) /\ ~isScanning')]_vars

\* The permission was asked once and denied.
C13_Witness ==
  /\ permRequests = 1
  /\ effectPc = "done"
  /\ hasPermission = Some(FALSE)
  /\ view.screen = "permission-denied"

\* The number of HTTP requests issued so far.
RECURSIVE SumPosts(_)
SumPosts(fs) ==
  IF fs = << >> THEN 0 ELSE Head(fs).posts + SumPosts(Tail(fs))

\* C14: no retry: the number of requests issued equals the number of decode
\* events processed, each decode issuing exactly one, and a request is
\* issued only in the step that handles a decode event.
C14_OneRequestPerDecode ==
  /\ [](SumPosts(fetches) = decodes /\ Len(fetches) = decodes)
  /\ [][SumPosts(fetches') # SumPosts(fetches) =>
          /\ decodes' = decodes + 1
          /\ SumPosts(fetches') = SumPosts(fetches) + 1]_vars

\* One decode was handled and its request failed; nothing is outstanding.
C14_Witness ==
  /\ decodes = 1
  /\ Len(fetches) = 1
  /\ fetches[1].outcome = "fetch_rejected"
  /\ error = Some(ConnectionMsg)
  /\ ~loading

\* C15: a success response that parses as JSON but lacks Invoice members
\* does not make the screen fail: whenever the invoice card is chosen, its
\* rendering completes.
C15_InvoiceCardRenders ==
  ("invoice" \in view.panels) => view.card = "rendered"

\* C16: loading is true exactly when some issued request has not yet
\* completed.
C16_LoadingIffOutstanding ==
  loading <=> (\E i \in 1..Len(fetches) : fetches[i].pc # "done")

\* The two user actions as seen in a pair of states: scanning goes from
\* false to true, or from true to false without a decode being handled.
StartScanStep == ~isScanning /\ isScanning'
CancelStep == isScanning /\ ~isScanning' /\ decodes' = decodes

\* C17: start-scan and cancel change only isScanning: rawUrl, invoice,
\* error, loading and hasPermission stay, no request is issued, and the
\* loading indicator, error banner or invoice card shown stays as it was.
C17_ScanButtonsOnlyToggle ==
  [][(StartScanStep \/ CancelStep) =>
       /\ UNCHANGED << rawUrl, invoice, error, loading, hasPermission,
                       fetches >>
       /\ view'.panels \ {"empty"} = view.panels \ {"empty"}
       /\ view'.card = view.card]_vars

\* An invoice is displayed, and a scan session started after it was
\* cancelled before any decode.
C17_Witness ==
  /\ Len(fetches) = 1
  /\ fetches[1].outcome = "invoice"
  /\ sessionFetches = 0
  /\ ~isScanning
  /\ invoice.some
  /\ view.panels = {"invoice"}

====
